---- MODULE Spec2Model ----
(***************************************************************************)
(* Model of db/query.go: the fluent Query builder, the Query evaluator     *)
(* (match, compareValue, traverseFieldPathMap) and the result pipeline     *)
(* (Txn.Find).                                                             *)
(*                                                                         *)
(* Representation.                                                         *)
(*  - A Go string is a sequence: field paths are sequences of one-letter   *)
(*    strings ("a", "b", "."), string values are sequences of code points  *)
(*    (naturals), so that strings.Split and strings.Compare are computed.  *)
(*  - A runtime value (interface{}) is a record whose dom is its dynamic   *)
(*    type, "string", "bool", "float" or "map", and whose other field (s,  *)
(*    b, f or m) is the value.                                             *)
(*  - A Value (the criterion operand) is such a record too: dom names the  *)
(*    one pointer that is set, or is "none" when none is.                  *)
(*  - *Query pointers are indices into heap; 0 is the nil pointer.         *)
(***************************************************************************)
EXTENDS Integers, Sequences, FiniteSets, TLC

VARIABLES
    heap,       \* the Query objects allocated so far; a *Query is an index
    crit,       \* <<>> or <<c>>: the detached Criterion awaiting its operator
    calls,      \* history: per Query, the operator calls and Or arguments made
    last,       \* history: the last builder call, its owner and what it returned
    ncalls,     \* number of builder calls made
    pc,         \* position of the program
    evalQ,      \* match: the receiver
    evalRec,    \* match: the record
    evalOut,    \* match: the outcome
    evalTrace,  \* match: the criteria and queries evaluated, in order
    findQ,      \* Find: q after the nil check
    txn,        \* Find: the read transaction
    iter,       \* Find: the iterator
    store,      \* Find: the records the transaction's snapshot iterates
    cursor,     \* Find: number of records the iterator has pulled
    matchLog,   \* Find: outcome of match for every record pulled
    values,     \* Find: the accumulated results
    result,     \* Find: what is returned to the caller
    events,     \* Find: the collaborator calls made, in order
    panicking   \* Find: a panic is unwinding the frame

vars == <<heap, crit, calls, last, ncalls, pc, evalQ, evalRec, evalOut, evalTrace,
          findQ, txn, iter, store, cursor, matchLog, values, result, events, panicking>>

builderVars == <<heap, crit, calls, last, ncalls>>
evalVars == <<evalQ, evalRec, evalOut, evalTrace>>
findVars == <<findQ, txn, iter, store, cursor, matchLog, values, result, events, panicking>>

----------------------------------------------------------------------------
(* Bounds *)

\* builder calls made before the query is evaluated
MaxCalls == 5
\* records in the snapshot a Find iterates
MaxRecs == 3

----------------------------------------------------------------------------
(* Values *)

Min(S) == CHOOSE x \in S : \A y \in S : x <= y

StrVal(x) == [dom |-> "string", s |-> x]
BoolVal(x) == [dom |-> "bool", b |-> x]
FloatVal(x) == [dom |-> "float", f |-> x]
MapVal(x) == [dom |-> "map", m |-> x]
NoValue == [dom |-> "none"]

\* the Go operands handed to an operator call, by dynamic type; ptr says that the
\* operand is a pointer to the value
GoString(x, ptr) == [type |-> "string", ptr |-> ptr, s |-> x]
GoBool(x, ptr) == [type |-> "bool", ptr |-> ptr, b |-> x]
GoFloat(x, ptr) == [type |-> "float64", ptr |-> ptr, f |-> x]
GoInt(x) == [type |-> "int", i |-> x]

\* field paths
PA == <<"a">>
PB == <<"b">>
PAB == <<"a", ".", "b">>
PNone == <<>>

\* strings.Split(fieldPath, "."): the segments between the dots
RECURSIVE Split(_)
Split(s) ==
    LET dots == {i \in 1..Len(s) : s[i] = "."}
    IN  IF dots = {} THEN <<s>>
        ELSE LET i == Min(dots)
             IN  <<SubSeq(s, 1, i - 1)>> \o Split(SubSeq(s, i + 1, Len(s)))

\* strings.Compare: -1, 0 or +1 by lexicographic order
stringsCompare(s, t) ==
    LET n == IF Len(s) < Len(t) THEN Len(s) ELSE Len(t)
        diff == {i \in 1..n : s[i] # t[i]}
    IN  IF diff = {}
        THEN IF Len(s) = Len(t) THEN 0 ELSE IF Len(s) < Len(t) THEN -1 ELSE 1
        ELSE IF s[Min(diff)] < t[Min(diff)] THEN -1 ELSE 1

\* a pointer operand is stored as it is, a value operand by its address: the
\* Value holds the same string, bool or float either way
createValue(value) ==
    CASE value.type = "string" /\ ~value.ptr -> StrVal(value.s)
      [] value.type = "bool" /\ ~value.ptr -> BoolVal(value.b)
      [] value.type = "float64" /\ ~value.ptr -> FloatVal(value.f)
      [] value.type = "string" /\ value.ptr -> StrVal(value.s)
      [] value.type = "bool" /\ value.ptr -> BoolVal(value.b)
      [] value.type = "float64" /\ value.ptr -> FloatVal(value.f)
      [] OTHER -> NoValue

----------------------------------------------------------------------------
(* Evaluator *)

RECURSIVE traverseLoop(_, _, _)
traverseLoop(curr, fields, i) ==
    IF i > Len(fields) THEN [err |-> FALSE, val |-> curr]
    ELSE IF curr.dom # "map" THEN [err |-> TRUE, val |-> NoValue]
    ELSE IF fields[i] \notin DOMAIN curr.m THEN [err |-> TRUE, val |-> NoValue]
    ELSE traverseLoop(curr.m[fields[i]], fields, i + 1)

traverseFieldPathMap(value, fieldPath) == traverseLoop(value, Split(fieldPath), 1)

\* [err, r]: err is "nil", "ErrTypeMismatch", or "fatal" (log.Fatalf ends the process)
compareValue(value, critVal) ==
    IF critVal.dom = "string"
    THEN IF value.dom # "string" THEN [err |-> "ErrTypeMismatch", r |-> 0]
         ELSE [err |-> "nil", r |-> stringsCompare(value.s, critVal.s)]
    ELSE IF critVal.dom = "bool"
    THEN IF value.dom # "bool" THEN [err |-> "ErrTypeMismatch", r |-> 0]
         ELSE IF critVal.b = value.b THEN [err |-> "nil", r |-> 0]
         ELSE [err |-> "nil", r |-> -1]
    ELSE IF critVal.dom = "float"
    THEN IF value.dom # "float" THEN [err |-> "ErrTypeMismatch", r |-> 0]
         ELSE IF value.f = critVal.f THEN [err |-> "nil", r |-> 0]
         ELSE IF value.f < critVal.f THEN [err |-> "nil", r |-> -1]
         ELSE [err |-> "nil", r |-> 1]
    ELSE [err |-> "fatal", r |-> 0]

Truth(b) == IF b THEN "true" ELSE "false"

\* CriterionSwitch with Le deciding "less than" only
CriterionSwitchStrictLe(op, res) ==
    IF res.err # "nil" THEN res.err
    ELSE CASE op = "Eq" -> Truth(res.r = 0)
           [] op = "Ne" -> Truth(res.r # 0)
           [] op = "Gt" -> Truth(res.r > 0)
           [] op = "Lt" -> Truth(res.r < 0)
           [] op = "Le" -> Truth(res.r < 0)
           [] op = "Ge" -> Truth(res.r > 0 \/ res.r = 0)
           [] OTHER -> "panic"

\* the switch of (*Criterion).match on the comparison res
CriterionSwitch(op, res) ==
    IF res.err # "nil" THEN res.err
    ELSE CASE op = "Eq" -> Truth(res.r = 0)
           [] op = "Ne" -> Truth(res.r # 0)
           [] op = "Gt" -> Truth(res.r > 0)
           [] op = "Lt" -> Truth(res.r < 0)
           [] op = "Le" -> Truth(res.r < 0 \/ res.r = 0)
           [] op = "Ge" -> Truth(res.r > 0 \/ res.r = 0)
           [] OTHER -> "panic"

\* (*Criterion).match: "true", "false", an error, "fatal" or "panic"
CriterionMatch(c, value) == CriterionSwitch(c.Operation, compareValue(value, c.Value))

\* the body of the loop over q.Ands once the field is traversed
AndCheck(c, fieldRes) ==
    IF fieldRes.err THEN "ErrFieldNotFound" ELSE CriterionMatch(c, fieldRes.val)

\* one iteration of the loop over q.Ands: traversal, then the criterion
AndStep(c, v) == AndCheck(c, traverseFieldPathMap(v, c.FieldPath))

\* the outcome of a loop whose first iteration gave ok and whose remaining
\* iterations give rest
AndJoin(q, i, ok, rest) ==
    IF ok # "true" THEN [out |-> ok, trace |-> << <<"crit", q, i, ok>> >>]
    ELSE [out |-> rest.out, trace |-> << <<"crit", q, i, ok>> >> \o rest.trace]

\* AndJoin for a loop that does not break on a false criterion
AndJoinNoBreak(q, i, ok, rest) ==
    IF ok \notin {"true", "false"} THEN [out |-> ok, trace |-> << <<"crit", q, i, ok>> >>]
    ELSE [out |-> IF rest.out = "true" THEN ok ELSE rest.out,
          trace |-> << <<"crit", q, i, ok>> >> \o rest.trace]

\* AndsLoop without the break: every criterion is evaluated
RECURSIVE AndsLoopNoBreak(_, _, _, _)
AndsLoopNoBreak(q, ands, i, v) ==
    IF i > Len(ands) THEN [out |-> "true", trace |-> <<>>]
    ELSE AndJoinNoBreak(q, i, AndStep(ands[i], v),
                        IF AndStep(ands[i], v) \in {"true", "false"}
                        THEN AndsLoopNoBreak(q, ands, i + 1, v)
                        ELSE [out |-> "false", trace |-> <<>>])

\* the loop over q.Ands from its i-th criterion: "true" when the loop ends with
\* andOk, "false" when it breaks, else the error returned; with the criteria tried
RECURSIVE AndsLoop(_, _, _, _)
AndsLoop(q, ands, i, v) ==
    IF i > Len(ands) THEN [out |-> "true", trace |-> <<>>]
    ELSE AndJoin(q, i, AndStep(ands[i], v),
                 IF AndStep(ands[i], v) = "true" THEN AndsLoop(q, ands, i + 1, v)
                 ELSE [out |-> "false", trace |-> <<>>])

RECURSIVE QueryMatch(_, _, _)
RECURSIVE OrsLoop(_, _, _, _)

\* the loop over q.Ors at its i-th alternative, whose match gave r
OrsJoin(h, ors, i, v, r) ==
    IF r.out # "false" THEN r
    ELSE [out |-> OrsLoop(h, ors, i + 1, v).out,
          trace |-> r.trace \o OrsLoop(h, ors, i + 1, v).trace]

\* the loop over q.Ors from its i-th alternative
OrsLoop(h, ors, i, v) ==
    IF i > Len(ors) THEN [out |-> "false", trace |-> <<>>]
    ELSE OrsJoin(h, ors, i, v, QueryMatch(h, ors[i], v))

\* q.match once the loop over q.Ors gave o, after the events of enter
AfterOrs(q, enter, o) ==
    IF o.out \in {"fatal", "panic"}
    THEN [out |-> o.out, trace |-> enter \o o.trace]
    ELSE [out |-> o.out, trace |-> enter \o o.trace \o << <<"ret", q, o.out>> >>]

\* AfterAnds for a match that evaluates the alternatives whatever the AND-group gave
AfterAndsAlways(h, q, v, a) ==
    IF a.out \in {"fatal", "panic"}
    THEN [out |-> a.out, trace |-> << <<"match", q>> >> \o a.trace]
    ELSE IF a.out \notin {"true", "false"}
    THEN [out |-> a.out, trace |-> << <<"match", q>> >> \o a.trace \o << <<"ret", q, a.out>> >>]
    ELSE AfterOrs(q, << <<"match", q>> >> \o a.trace,
                  [out |-> IF OrsLoop(h, h[q].Ors, 1, v).out = "false"
                           THEN a.out ELSE OrsLoop(h, h[q].Ors, 1, v).out,
                   trace |-> OrsLoop(h, h[q].Ors, 1, v).trace])

\* q.match once the loop over q.Ands gave a
AfterAnds(h, q, v, a) ==
    IF a.out = "true"
    THEN [out |-> "true", trace |-> << <<"match", q>> >> \o a.trace \o << <<"ret", q, "true">> >>]
    ELSE IF a.out \in {"fatal", "panic"}
    THEN [out |-> a.out, trace |-> << <<"match", q>> >> \o a.trace]
    ELSE IF a.out # "false"
    THEN [out |-> a.out, trace |-> << <<"match", q>> >> \o a.trace \o << <<"ret", q, a.out>> >>]
    ELSE AfterOrs(q, << <<"match", q>> >> \o a.trace, OrsLoop(h, h[q].Ors, 1, v))

\* (*Query).match on the Query at pointer q of heap h: the outcome and the trace
\* of what was evaluated; an invocation that returns adds <<"ret", q, out>>
QueryMatch(h, q, v) ==
    IF q = 0 THEN [out |-> "panic", trace |-> << <<"match", 0>> >>]
    ELSE AfterAnds(h, q, v, AndsLoop(q, h[q].Ands, 1, v))

----------------------------------------------------------------------------
(* Query builder *)

NoSort == [FieldPath |-> PNone, Desc |-> FALSE]

\* &Query{}
EmptyQuery == [Ands |-> <<>>, Ors |-> <<>>, Sort |-> NoSort, Index |-> PNone]

\* the history entry of a Query just allocated
NoCalls == [ands |-> <<>>, ors |-> <<>>, sort |-> NoSort, index |-> PNone]

\* the Query pointers reachable from the pointers of S through Ors
RECURSIVE Reach(_, _)
Reach(h, S) ==
    LET U == S \cup UNION {{h[q].Ors[i] : i \in 1..Len(h[q].Ors)} : q \in S \ {0}}
    IN  IF U = S THEN S ELSE Reach(h, U)

Called(name, owner, ret) == [call |-> name, owner |-> owner, ret |-> ret]

Building == pc = "build" /\ ncalls < MaxCalls

\* Where(field): a detached Criterion, linked to no Query
Where(field) ==
    /\ Building
    /\ crit' = <<[FieldPath |-> field, query |-> 0]>>
    /\ last' = Called("Where", 0, 0)
    /\ ncalls' = ncalls + 1
    /\ UNCHANGED <<heap, calls, pc, evalVars, findVars>>

\* the free constructors OrderBy(field) and OrderByDesc(field)
NewSorted(field, desc) ==
    /\ Building
    /\ heap' = Append(heap, [EmptyQuery EXCEPT !.Sort = [FieldPath |-> field, Desc |-> desc]])
    /\ calls' = Append(calls, [NoCalls EXCEPT !.sort = [FieldPath |-> field, Desc |-> desc]])
    /\ last' = Called("New", 0, Len(heap) + 1)
    /\ ncalls' = ncalls + 1
    /\ UNCHANGED <<crit, pc, evalVars, findVars>>

OrderBy(field) == NewSorted(field, FALSE)

OrderByDesc(field) == NewSorted(field, TRUE)

\* q.And(field): a detached Criterion linked to q
And(q, field) ==
    /\ Building
    /\ q \in 1..Len(heap)
    /\ crit' = <<[FieldPath |-> field, query |-> q]>>
    /\ last' = Called("And", q, 0)
    /\ ncalls' = ncalls + 1
    /\ UNCHANGED <<heap, calls, pc, evalVars, findVars>>

\* q.UseIndex(path)
UseIndex(q, path) ==
    /\ Building
    /\ q \in 1..Len(heap)
    /\ heap' = [heap EXCEPT ![q].Index = path]
    /\ calls' = [calls EXCEPT ![q].index = path]
    /\ last' = Called("UseIndex", q, q)
    /\ ncalls' = ncalls + 1
    /\ UNCHANGED <<crit, pc, evalVars, findVars>>

\* q.Or(orQuery); orQuery may be nil, and the tree stays free of cycles
Or(q, orQuery) ==
    /\ Building
    /\ q \in 1..Len(heap)
    /\ orQuery \in 0..Len(heap)
    /\ q \notin Reach(heap, {orQuery})
    /\ heap' = [heap EXCEPT ![q].Ors = Append(@, orQuery)]
    /\ calls' = [calls EXCEPT ![q].ors = Append(@, orQuery)]
    /\ last' = Called("Or", q, q)
    /\ ncalls' = ncalls + 1
    /\ UNCHANGED <<crit, pc, evalVars, findVars>>

\* the methods q.OrderBy(field) and q.OrderByDesc(field)
SetSort(q, field, desc) ==
    /\ Building
    /\ q \in 1..Len(heap)
    /\ heap' = [heap EXCEPT ![q].Sort = [FieldPath |-> field, Desc |-> desc]]
    /\ calls' = [calls EXCEPT ![q].sort = [FieldPath |-> field, Desc |-> desc]]
    /\ last' = Called("Sort", q, q)
    /\ ncalls' = ncalls + 1
    /\ UNCHANGED <<crit, pc, evalVars, findVars>>

QueryOrderBy(q, field) == SetSort(q, field, FALSE)

QueryOrderByDesc(q, field) == SetSort(q, field, TRUE)

\* createcriterion appending into a fresh Query whatever c.query is
createcriterionFresh(h, c, op, value) ==
    [heap |-> Append(h, [EmptyQuery EXCEPT !.Ands =
                 <<[FieldPath |-> c.FieldPath, Operation |-> op, Value |-> createValue(value)]>>]),
     ret |-> Len(h) + 1]

\* c.createcriterion(op, value) on the pending Criterion c: the heap after it and
\* the pointer returned
createcriterion(h, c, op, value) ==
    LET done == [FieldPath |-> c.FieldPath, Operation |-> op, Value |-> createValue(value)]
        q == IF c.query = 0 THEN Len(h) + 1 ELSE c.query
        h1 == IF c.query = 0 THEN Append(h, EmptyQuery) ELSE h
    IN  [heap |-> [h1 EXCEPT ![q].Ands = Append(@, done)], ret |-> q]

\* an operator call on the pending Criterion; the chained temporary is then gone
Operator(op, value) ==
    /\ Building
    /\ crit # <<>>
    /\ LET c == crit[1]
           r == createcriterion(heap, c, op, value)
           said == [FieldPath |-> c.FieldPath, Operation |-> op, Value |-> createValue(value)]
       IN  /\ heap' = r.heap
           /\ last' = Called("Operator", c.query, r.ret)
           /\ calls' = IF c.query = 0
                       THEN Append(calls, [NoCalls EXCEPT !.ands = <<said>>])
                       ELSE [calls EXCEPT ![c.query].ands = Append(@, said)]
    /\ crit' = <<>>
    /\ ncalls' = ncalls + 1
    /\ UNCHANGED <<pc, evalVars, findVars>>

Eq(value) == Operator("Eq", value)

Ne(value) == Operator("Ne", value)

Gt(value) == Operator("Gt", value)

Lt(value) == Operator("Lt", value)

Ge(value) == Operator("Ge", value)

Le(value) == Operator("Le", value)

\* q.match(v), called on a built Query for one candidate record
Match(q, v) ==
    /\ pc = "build"
    /\ q \in 1..Len(heap)
    /\ \E r \in {QueryMatch(heap, q, v)} :
           /\ evalOut' = r.out
           /\ evalTrace' = r.trace
    /\ evalQ' = q
    /\ evalRec' = v
    /\ pc' = "matched"
    /\ UNCHANGED <<builderVars, findVars>>

----------------------------------------------------------------------------
(* Result pipeline: Find *)

\* the i-th record of the snapshot as the iterator hands it over: the raw payload
\* (named by the record's position) and the deserialized mapping
MarshaledResult(st, i) == [Value |-> i, MarshaledValue |-> st[i]]

\* the untyped three-way comparison used by the sort: [err, r]. Strings and floats
\* are ordered; booleans compare as in compareValue; two different domains, or a
\* domain that is none of the three, cannot be compared
compare(a, b) ==
    IF a.dom # b.dom THEN [err |-> TRUE, r |-> 0]
    ELSE IF a.dom = "string" THEN [err |-> FALSE, r |-> stringsCompare(a.s, b.s)]
    ELSE IF a.dom = "float"
    THEN [err |-> FALSE, r |-> IF a.f = b.f THEN 0 ELSE IF a.f < b.f THEN -1 ELSE 1]
    ELSE IF a.dom = "bool" THEN [err |-> FALSE, r |-> IF a.b = b.b THEN 0 ELSE -1]
    ELSE [err |-> TRUE, r |-> 0]

\* the less callback handed to sort.Slice, on the slice and flags of s: the answer
\* and the flags after it
\* lessCompared without the reversal of the sign for a descending sort
lessComparedAscending(s, desc, res) ==
    IF res.err THEN [lt |-> FALSE, s |-> [s EXCEPT !.cantCompare = TRUE]]
    ELSE [lt |-> res.r < 0, s |-> s]

\* the less callback once both fields are compared
lessCompared(s, desc, res) ==
    IF res.err THEN [lt |-> FALSE, s |-> [s EXCEPT !.cantCompare = TRUE]]
    ELSE [lt |-> (IF desc THEN res.r * (-1) ELSE res.r) < 0, s |-> s]

\* the less callback once both fields are traversed
lessTraversed(s, desc, fieldI, fieldJ) ==
    IF fieldI.err THEN [lt |-> FALSE, s |-> [s EXCEPT !.wrongField = TRUE]]
    ELSE IF fieldJ.err THEN [lt |-> FALSE, s |-> [s EXCEPT !.wrongField = TRUE]]
    ELSE lessCompared(s, desc, compare(fieldI.val, fieldJ.val))

less(s, i, j, sortSpec) ==
    lessTraversed(s, sortSpec.Desc,
                  traverseFieldPathMap(s.values[i].MarshaledValue, sortSpec.FieldPath),
                  traverseFieldPathMap(s.values[j].MarshaledValue, sortSpec.FieldPath))

Swap(seq, i, j) == [seq EXCEPT ![i] = seq[j], ![j] = seq[i]]

\* sort.Slice on a short slice is an insertion sort: element i sinks while it is
\* less than its left neighbour
RECURSIVE InsertionInner(_, _, _)
InsertionSink(l, j, sortSpec) ==
    IF l.lt
    THEN InsertionInner([l.s EXCEPT !.values = Swap(@, j, j - 1)], j - 1, sortSpec)
    ELSE l.s

InsertionInner(s, j, sortSpec) ==
    IF j <= 1 THEN s ELSE InsertionSink(less(s, j, j - 1, sortSpec), j, sortSpec)

RECURSIVE InsertionOuter(_, _, _)
InsertionOuter(s, i, sortSpec) ==
    IF i > Len(s.values) THEN s
    ELSE InsertionOuter(InsertionInner(s, i, sortSpec), i + 1, sortSpec)

sortSlice(vals, sortSpec) ==
    InsertionOuter([values |-> vals, wrongField |-> FALSE, cantCompare |-> FALSE], 2, sortSpec)

Payloads(vals) == [i \in 1..Len(vals) |-> vals[i].Value]

\* the iterator's NextSync from cursor cur: records are pulled and matched until
\* one matches (ok), the snapshot is exhausted, or match fails; a match error ends
\* the iteration like exhaustion, since only (res, ok) is handed back
RECURSIVE NextSync(_, _, _, _)
NextMatched(h, q, st, cur, m) ==
    IF m.out = "true"
    THEN [ok |-> TRUE, end |-> "match", cursor |-> cur + 1,
          log |-> <<[i |-> cur + 1, out |-> m.out, trace |-> m.trace]>>]
    ELSE IF m.out = "false"
    THEN [NextSync(h, q, st, cur + 1) EXCEPT
              !.log = <<[i |-> cur + 1, out |-> m.out, trace |-> m.trace]>> \o @]
    ELSE [ok |-> FALSE, end |-> m.out, cursor |-> cur + 1,
          log |-> <<[i |-> cur + 1, out |-> m.out, trace |-> m.trace]>>]

NextSync(h, q, st, cur) ==
    IF cur >= Len(st) THEN [ok |-> FALSE, end |-> "done", cursor |-> cur, log |-> <<>>]
    ELSE NextMatched(h, q, st, cur, QueryMatch(h, q, st[cur + 1]))

\* Find without the replacement of a nil q
FindKeepNil(q, st) ==
    /\ pc = "build"
    /\ q \in 0..Len(heap)
    /\ findQ' = q
    /\ last' = Called("Find", q, 0)
    /\ txn' = "open"
    /\ iter' = "open"
    /\ store' = st
    /\ events' = <<"NewTransaction", "newIterator">>
    /\ pc' = "iterate"
    /\ UNCHANGED <<heap, calls, crit, ncalls, evalVars, cursor, matchLog, values, result,
                   panicking>>

\* Find(q) up to the creation of the iterator, the transaction opening on the
\* snapshot st
Find(q, st) ==
    /\ pc = "build"
    /\ q \in 0..Len(heap)
    /\ IF q = 0
       THEN /\ heap' = Append(heap, EmptyQuery)
            /\ calls' = Append(calls, NoCalls)
            /\ findQ' = Len(heap) + 1
       ELSE /\ findQ' = q
            /\ UNCHANGED <<heap, calls>>
    /\ last' = Called("Find", q, 0)
    /\ txn' = "open"
    /\ iter' = "open"
    /\ store' = st
    /\ events' = <<"NewTransaction", "newIterator">>
    /\ pc' = "iterate"
    /\ UNCHANGED <<crit, ncalls, evalVars, cursor, matchLog, values, result, panicking>>

\* Find(q) when NewTransaction fails
FindNoTransaction(q) ==
    /\ pc = "build"
    /\ q \in 0..Len(heap)
    /\ IF q = 0
       THEN /\ heap' = Append(heap, EmptyQuery)
            /\ calls' = Append(calls, NoCalls)
            /\ findQ' = Len(heap) + 1
       ELSE /\ findQ' = q
            /\ UNCHANGED <<heap, calls>>
    /\ last' = Called("Find", q, 0)
    /\ txn' = "failed"
    /\ events' = <<"NewTransaction">>
    /\ result' = [set |-> TRUE, payloads |-> <<>>, err |-> "ErrBuildingInternalQuery"]
    /\ pc' = "returned"
    /\ UNCHANGED <<crit, ncalls, evalVars, iter, store, cursor, matchLog, values, panicking>>

\* one turn of the accumulation loop
FindNext ==
    /\ pc = "iterate"
    /\ \E r \in {NextSync(heap, findQ, store, cursor)} :
           /\ cursor' = r.cursor
           /\ matchLog' = matchLog \o r.log
           /\ values' = IF r.ok THEN Append(values, MarshaledResult(store, r.cursor))
                        ELSE values
           /\ panicking' = (r.end = "panic")
           /\ pc' = CASE r.ok -> "iterate"
                      [] r.end = "panic" -> "deferClose"
                      [] r.end = "fatal" -> "exited"
                      [] OTHER -> "sort"
    /\ UNCHANGED <<builderVars, evalVars, findQ, txn, iter, store, result, events>>

\* the sort and the result; errorExit is where the error return leads
FindSortTo(errorExit) ==
    /\ pc = "sort"
    /\ \E sortSpec \in {heap[findQ].Sort}, s \in {sortSlice(values, heap[findQ].Sort)} :
           IF sortSpec.FieldPath # PNone
           THEN /\ values' = s.values
                /\ IF s.wrongField
                   THEN /\ result' = [set |-> TRUE, payloads |-> <<>>,
                                      err |-> "ErrInvalidSortingField"]
                        /\ UNCHANGED panicking
                   ELSE IF s.cantCompare
                   THEN /\ panicking' = TRUE
                        /\ UNCHANGED result
                   ELSE /\ result' = [set |-> TRUE, payloads |-> Payloads(s.values),
                                      err |-> "nil"]
                        /\ UNCHANGED panicking
           ELSE /\ result' = [set |-> TRUE, payloads |-> Payloads(values), err |-> "nil"]
                /\ UNCHANGED <<values, panicking>>
    /\ pc' = IF result'.err = "nil" THEN "deferClose" ELSE errorExit
    /\ UNCHANGED <<builderVars, evalVars, findQ, txn, iter, store, cursor, matchLog, events>>

\* FindSort with an error return that runs no deferred call
FindSortEarlyReturn == FindSortTo("returned")

\* the sort and the result: every return runs the deferred calls
FindSort == FindSortTo("deferClose")

\* defer iter.Close()
DeferClose ==
    /\ pc = "deferClose"
    /\ iter' = "closed"
    /\ events' = Append(events, "Close")
    /\ pc' = "deferDiscard"
    /\ UNCHANGED <<builderVars, evalVars, findQ, txn, store, cursor, matchLog, values,
                   result, panicking>>

\* defer txn.Discard(), then control is back in the caller
DeferDiscard ==
    /\ pc = "deferDiscard"
    /\ txn' = "discarded"
    /\ events' = Append(events, "Discard")
    /\ pc' = IF panicking THEN "panicked" ELSE "returned"
    /\ UNCHANGED <<builderVars, evalVars, findQ, iter, store, cursor, matchLog, values,
                   result, panicking>>

----------------------------------------------------------------------------
(* Inputs *)

Docs(avals, bvals) ==
    {MapVal(<<>>)}
        \cup {MapVal(PA :> x) : x \in avals}
        \cup {MapVal(PB :> y) : y \in bvals}
        \cup {MapVal(PA :> x @@ PB :> y) : x \in avals, y \in bvals}

\* the operands of the operator calls: each domain by value and by pointer, and
\* an operand of no supported type
GoOperands ==
    {GoFloat(1, FALSE), GoFloat(2, FALSE), GoFloat(2, TRUE),
     GoString(<<1>>, FALSE), GoString(<<1, 2>>, FALSE), GoString(<<1>>, TRUE),
     GoBool(TRUE, FALSE), GoBool(FALSE, FALSE), GoBool(TRUE, TRUE),
     GoInt(1)}

RecordValues ==
    {FloatVal(1), FloatVal(2), StrVal(<<1>>), StrVal(<<1, 2>>), StrVal(<<2>>),
     BoolVal(TRUE), BoolVal(FALSE)}

CritFields == {PA, PB, PAB, PNone}

CritDocs == Docs(RecordValues \cup {MapVal(PB :> FloatVal(1))}, {FloatVal(1)})

Ops == {"Eq", "Ne", "Gt", "Lt", "Ge", "Le"}

Init ==
    /\ heap = <<>>
    /\ crit = <<>>
    /\ calls = <<>>
    /\ last = Called("none", 0, 0)
    /\ ncalls = 0
    /\ pc = "build"
    /\ evalQ = 0
    /\ evalRec = MapVal(<<>>)
    /\ evalOut = "none"
    /\ evalTrace = <<>>
    /\ findQ = 0
    /\ txn = "none"
    /\ iter = "none"
    /\ store = <<>>
    /\ cursor = 0
    /\ matchLog = <<>>
    /\ values = <<>>
    /\ result = [set |-> FALSE, payloads |-> <<>>, err |-> "nil"]
    /\ events = <<>>
    /\ panicking = FALSE

\* one criterion, Where(f).op(v), matched against one record
NextCrit ==
    \/ \E f \in CritFields : heap = <<>> /\ crit = <<>> /\ Where(f)
    \/ \E v \in GoOperands : Eq(v)
    \/ \E v \in GoOperands : Ne(v)
    \/ \E v \in GoOperands : Gt(v)
    \/ \E v \in GoOperands : Lt(v)
    \/ \E v \in GoOperands : Ge(v)
    \/ \E v \in GoOperands : Le(v)
    \/ pc = "build" /\ \E v \in CritDocs : Match(1, v)

SpecCrit == Init /\ [][NextCrit]_vars

\* the builder, then one match of a built Query against one record
Fields == {PA, PB}

SortFields == {PB}

IndexPaths == {PA}

Operands == {GoFloat(1, FALSE), GoFloat(2, FALSE)}

MatchDocs == Docs({FloatVal(1), FloatVal(2), StrVal(<<1>>)}, {FloatVal(1), FloatVal(2), StrVal(<<1>>)})

Next ==
    \/ \E f \in Fields : Where(f)
    \/ \E f \in SortFields : OrderBy(f)
    \/ \E f \in SortFields : OrderByDesc(f)
    \/ \E q \in 1..Len(heap), f \in Fields : And(q, f)
    \/ \E q \in 1..Len(heap), p \in IndexPaths : UseIndex(q, p)
    \/ \E q \in 1..Len(heap), o \in 0..Len(heap) : Or(q, o)
    \/ \E q \in 1..Len(heap), f \in SortFields : QueryOrderBy(q, f)
    \/ \E q \in 1..Len(heap), f \in SortFields : QueryOrderByDesc(q, f)
    \/ \E v \in Operands : Eq(v)
    \/ pc = "build" /\ \E q \in 1..Len(heap), v \in MatchDocs : Match(q, v)

Spec == Init /\ [][Next]_vars

\* a short builder chain, then Find over a snapshot
\* builder calls made before Find
MaxBuild == 3

FindOperands == {GoFloat(1, FALSE), GoInt(1)}

FindDocs ==
    {MapVal(PA :> FloatVal(1) @@ PB :> FloatVal(1)),
     MapVal(PA :> FloatVal(1) @@ PB :> FloatVal(2)),
     MapVal(PA :> FloatVal(1) @@ PB :> FloatVal(3)),
     MapVal(PA :> FloatVal(2) @@ PB :> FloatVal(1)),
     MapVal(PB :> FloatVal(2)),
     MapVal(PA :> FloatVal(1)),
     MapVal(PA :> FloatVal(1) @@ PB :> StrVal(<<1>>)),
     MapVal(PA :> FloatVal(1) @@ PB :> StrVal(<<1, 2>>))}

Snapshots == UNION {[1..n -> FindDocs] : n \in 0..MaxRecs}

\* the query handed to Find: nil when nothing is built, else the one built
FindArgs == IF heap = <<>> THEN {0} ELSE {Len(heap)}

\* one chain, Where(a).Eq(v) or OrderBy(b), then Or(nil), OrderBy and OrderByDesc
\* calls on it; Find is called once the chain is complete
NextFind ==
    \/ ncalls < MaxBuild /\ heap = <<>> /\ crit = <<>> /\ Where(PA)
    \/ ncalls < MaxBuild /\ heap = <<>> /\ crit = <<>> /\ OrderBy(PB)
    \/ ncalls < MaxBuild /\ \E v \in FindOperands : Eq(v)
    \/ ncalls < MaxBuild /\ \E q \in 1..Len(heap) : Or(q, 0)
    \/ ncalls < MaxBuild /\ \E q \in 1..Len(heap) : QueryOrderBy(q, PB)
    \/ ncalls < MaxBuild /\ \E q \in 1..Len(heap) : QueryOrderByDesc(q, PB)
    \/ pc = "build" /\ crit = <<>> /\ \E q \in FindArgs, st \in Snapshots : Find(q, st)
    \/ pc = "build" /\ crit = <<>> /\ \E q \in FindArgs : FindNoTransaction(q)
    \/ FindNext
    \/ FindSort
    \/ DeferClose
    \/ DeferDiscard

SpecFind == Init /\ [][NextFind]_vars

----------------------------------------------------------------------------
(* What the claims speak of, stated without the evaluator *)

\* s is before t in lexicographic order
LexLess(s, t) ==
    \E k \in 1..Len(t) :
        /\ \A i \in 1..(k - 1) : i <= Len(s) /\ s[i] = t[i]
        /\ (k > Len(s) \/ s[k] < t[k])

\* the field path resolves in the record R
Resolves(R, path) ==
    IF path = PAB
    THEN PA \in DOMAIN R.m /\ R.m[PA].dom = "map" /\ PB \in DOMAIN R.m[PA].m
    ELSE path \in DOMAIN R.m

\* the value the field path resolves to
FieldOf(R, path) == IF path = PAB THEN R.m[PA].m[PB] ELSE R.m[path]

\* the three-way result of comparing x to v, both of one domain
ThreeWay(x, v) ==
    CASE x.dom = "string" -> IF x.s = v.s THEN 0 ELSE IF LexLess(x.s, v.s) THEN -1 ELSE 1
      [] x.dom = "float" -> IF x.f = v.f THEN 0 ELSE IF x.f < v.f THEN -1 ELSE 1
      [] x.dom = "bool" -> IF x.b = v.b THEN 0 ELSE -1

TruthTable(op, r) ==
    CASE op = "Eq" -> r = 0
      [] op = "Ne" -> r # 0
      [] op = "Gt" -> r > 0
      [] op = "Lt" -> r < 0
      [] op = "Ge" -> r >= 0
      [] op = "Le" -> r <= 0

\* what one criterion is to give on the record R
Expected(c, R) ==
    IF ~Resolves(R, c.FieldPath) THEN "ErrFieldNotFound"
    ELSE IF FieldOf(R, c.FieldPath).dom # c.Value.dom THEN "ErrTypeMismatch"
    ELSE Truth(TruthTable(c.Operation, ThreeWay(FieldOf(R, c.FieldPath), c.Value)))

\* field = value holds in R
HoldsEq(c, R) == Resolves(R, c.FieldPath) /\ FieldOf(R, c.FieldPath) = c.Value

\* the AND-group of the Query at q holds in R
AndGroupHolds(q, R) ==
    \A i \in 1..Len(heap[q].Ands) : Expected(heap[q].Ands[i], R) = "true"

IsEmptyQuery(Q) == Q.Ands = <<>> /\ Q.Ors = <<>>

TheThree == {"string", "bool", "float"}

----------------------------------------------------------------------------
(* C6, under SpecCrit *)

----------------------------------------------------------------------------
(* C1, C5, C9, C10, under Spec *)

\* the Query at q is (Where(f).Eq(v1)).Or(Where(g).Eq(v2))
IsEqOrEq(q) ==
    /\ Len(heap[q].Ands) = 1
    /\ heap[q].Ands[1].Operation = "Eq"
    /\ Len(heap[q].Ors) = 1
    /\ heap[q].Ors[1] # 0
    /\ Len(heap[heap[q].Ors[1]].Ands) = 1
    /\ heap[heap[q].Ors[1]].Ands[1].Operation = "Eq"
    /\ heap[heap[q].Ors[1]].Ors = <<>>

\* C1: for (Where(a).Eq(v1)).Or(Where(b).Eq(v2)), match returns true whenever a = v1
\* holds in the record or b = v2 holds in it, whatever the record holds for a
C1_OrMatchesEither ==
    (/\ pc = "matched"
     /\ IsEqOrEq(evalQ)
     /\ \/ HoldsEq(heap[evalQ].Ands[1], evalRec)
        \/ HoldsEq(heap[heap[evalQ].Ors[1]].Ands[1], evalRec))
        => evalOut = "true"

\* the Query at q is Where(f).Eq(v1).And(g).Eq(v2), with no alternative
IsEqAndEq(q) ==
    /\ Len(heap[q].Ands) = 2
    /\ heap[q].Ands[1].Operation = "Eq"
    /\ heap[q].Ands[2].Operation = "Eq"
    /\ heap[q].Ors = <<>>

\* the first criterion resolves to a value of its domain that differs from its value
FirstIsFalse(q, R) ==
    /\ Resolves(R, heap[q].Ands[1].FieldPath)
    /\ FieldOf(R, heap[q].Ands[1].FieldPath).dom = heap[q].Ands[1].Value.dom
    /\ FieldOf(R, heap[q].Ands[1].FieldPath) # heap[q].Ands[1].Value

\* C5: for Where(a).Eq(v1).And(b).Eq(v2), match is true iff both hold; the criteria
\* are evaluated in the order appended; when the first is false the result is false
\* with no error and the second is not evaluated
C5_AndShortCircuit ==
    (pc = "matched" /\ IsEqAndEq(evalQ)) =>
        /\ (evalOut = "true") <=>
               (HoldsEq(heap[evalQ].Ands[1], evalRec) /\ HoldsEq(heap[evalQ].Ands[2], evalRec))
        /\ evalTrace[1] = <<"match", evalQ>>
        /\ evalTrace[2] = <<"crit", evalQ, 1, Expected(heap[evalQ].Ands[1], evalRec)>>
        /\ HoldsEq(heap[evalQ].Ands[1], evalRec) =>
               evalTrace[3] = <<"crit", evalQ, 2, Expected(heap[evalQ].Ands[2], evalRec)>>
        /\ FirstIsFalse(evalQ, evalRec) =>
               /\ evalOut = "false"
               /\ evalTrace = << <<"match", evalQ>>, <<"crit", evalQ, 1, "false">>,
                                 <<"ret", evalQ, "false">> >>

\* C5 witness: the first criterion is false and the field of the second is missing
C5_Witness ==
    /\ pc = "matched"
    /\ IsEqAndEq(evalQ)
    /\ FirstIsFalse(evalQ, evalRec)
    /\ ~Resolves(evalRec, heap[evalQ].Ands[2].FieldPath)
    /\ evalOut = "false"

\* C9: each Query holds exactly the criteria its operator calls finalised, the Or
\* arguments it was given, the sort spec of the last OrderBy/OrderByDesc and the
\* index of the last UseIndex, in call order; every call returns the owning Query
C9_BuilderAccumulates ==
    /\ Len(heap) = Len(calls)
    /\ \A q \in 1..Len(heap) :
           /\ heap[q].Ands = calls[q].ands
           /\ heap[q].Ors = calls[q].ors
           /\ heap[q].Sort = calls[q].sort
           /\ heap[q].Index = calls[q].index
    /\ last.call \in {"Or", "Sort", "UseIndex"} => last.ret = last.owner
    /\ last.call = "Operator" =>
           last.ret = IF last.owner = 0 THEN Len(heap) ELSE last.owner

\* C9 witness: an And(f).op(v) made after an Or has appended into the receiver
C9_Witness ==
    /\ last.call = "Operator"
    /\ last.owner # 0
    /\ Len(heap[last.owner].Ors) = 1
    /\ Len(heap[last.owner].Ands) = 2

\* C10: whenever the AND-group of a Query holds (an empty one always does), its
\* match evaluates its criteria and returns true: no alternative is evaluated and
\* no error is surfaced
C10_AndGroupDecides ==
    pc = "matched" =>
        /\ AndGroupHolds(evalQ, evalRec) => evalOut = "true"
        /\ \A p \in 1..Len(evalTrace) :
               (/\ evalTrace[p][1] = "match"
                /\ evalTrace[p][2] # 0
                /\ AndGroupHolds(evalTrace[p][2], evalRec)) =>
                   /\ Len(evalTrace) >= p + Len(heap[evalTrace[p][2]].Ands) + 1
                   /\ \A i \in 1..Len(heap[evalTrace[p][2]].Ands) :
                          evalTrace[p + i] = <<"crit", evalTrace[p][2], i, "true">>
                   /\ evalTrace[p + Len(heap[evalTrace[p][2]].Ands) + 1]
                          = <<"ret", evalTrace[p][2], "true">>

\* C10 witness: OrderBy(f).Or(Where(a).Eq(v)) matches a record without field a
C10_Witness ==
    /\ pc = "matched"
    /\ heap[evalQ].Ands = <<>>
    /\ Len(heap[evalQ].Ors) = 1
    /\ heap[evalQ].Ors[1] # 0
    /\ QueryMatch(heap, heap[evalQ].Ors[1], evalRec).out = "ErrFieldNotFound"
    /\ evalOut = "true"

----------------------------------------------------------------------------
(* C2, C3, C4, C7, C8, under SpecFind *)

\* Find opened its transaction and has returned to its caller
Returned == pc = "returned" /\ txn = "discarded"

SortPath == heap[findQ].Sort.FieldPath

\* C2: with a sort path set, whenever the sort path fails to resolve in some
\* accumulated record (one record or many), Find returns ErrInvalidSortingField and
\* no payloads
C2_SortFieldErrorAnySize ==
    (/\ Returned
     /\ SortPath # PNone
     /\ \E i \in 1..Len(values) : ~Resolves(values[i].MarshaledValue, SortPath))
        => result = [set |-> TRUE, payloads |-> <<>>, err |-> "ErrInvalidSortingField"]

\* what match gives on the i-th candidate of the snapshot
Candidate(i) == QueryMatch(heap, findQ, store[i]).out

\* the candidates on which match raises an error
Raising == {i \in 1..Len(store) : Candidate(i) \notin {"true", "false"}}

\* the positions of the candidates that match, in iteration order
Matching == SelectSeq([i \in 1..Len(store) |-> i], LAMBDA i : Candidate(i) = "true")

\* C3: Find is all-or-nothing: when match raises an error on some candidate, Find
\* returns the first such error and no payloads; else, an error comes with no
\* payloads and, with no sort path, the payloads are those of the matching
\* candidates in iteration order
C3_AllOrNothing ==
    Returned =>
        IF Raising # {}
        THEN result = [set |-> TRUE, payloads |-> <<>>, err |-> Candidate(Min(Raising))]
        ELSE /\ result.err # "nil" => result.payloads = <<>>
             /\ SortPath = PNone => (result.err = "nil" /\ result.payloads = Matching)

\* some match of the log was invoked on a nil or an empty Query
OnNilOrEmpty(e) ==
    \E p \in 1..Len(e.trace) :
        /\ e.trace[p][1] = "match"
        /\ (e.trace[p][2] = 0 \/ IsEmptyQuery(heap[e.trace[p][2]]))

\* Find was called with a nil query
FindOfNil == last.call = "Find" /\ last.owner = 0

\* every record of the snapshot, in iteration order
AllPayloads == [i \in 1..Len(store) |-> i]

\* C4, as claimed: match on a nil or an empty Query returns true with no error (so
\* does the match that reached it), and Find(nil) returns every record
C4_NilOrEmptyMatches ==
    /\ \A k \in 1..Len(matchLog) : OnNilOrEmpty(matchLog[k]) => matchLog[k].out = "true"
    /\ (FindOfNil /\ Returned) => (result.err = "nil" /\ result.payloads = AllPayloads)

\* C4, amended: match on an empty Query returns true with no error; match on a nil
\* Query panics; Find replaces a nil query by a fresh empty Query before any match,
\* so Find(nil) never panics and returns every record
C4_EmptyMatchesNilPanics ==
    /\ \A k \in 1..Len(matchLog) : \A p \in 1..Len(matchLog[k].trace) :
           matchLog[k].trace[p][1] = "match" =>
               IF matchLog[k].trace[p][2] = 0
               THEN matchLog[k].out = "panic" /\ p = Len(matchLog[k].trace)
               ELSE IsEmptyQuery(heap[matchLog[k].trace[p][2]]) =>
                        /\ p < Len(matchLog[k].trace)
                        /\ matchLog[k].trace[p + 1] = <<"ret", matchLog[k].trace[p][2], "true">>
    /\ FindOfNil =>
           /\ findQ # 0
           /\ heap[findQ] = EmptyQuery
           /\ pc \notin {"panicked", "exited"}
           /\ Returned => (result.err = "nil" /\ result.payloads = AllPayloads)

\* C4 witness: Find(nil) matched and returned both records of a snapshot
C4_Witness ==
    /\ FindOfNil
    /\ Returned
    /\ Len(store) = 2
    /\ Len(matchLog) = 2
    /\ result.payloads = <<1, 2>>

AllReleased == <<"NewTransaction", "newIterator", "Close", "Discard">>

\* C7: once the transaction is open, every return to the caller, by a result, an
\* error or a panic, comes after iter.Close() and then txn.Discard(), each made
\* once; when the transaction cannot be opened no iterator is created and an error
\* is returned with no payloads
C7_ScopedRelease ==
    /\ \E n \in 0..4 : events = SubSeq(AllReleased, 1, n)
    /\ (pc \in {"returned", "panicked"} /\ txn # "failed") =>
           (events = AllReleased /\ iter = "closed" /\ txn = "discarded")
    /\ txn = "failed" =>
           /\ pc = "returned"
           /\ events = <<"NewTransaction">>
           /\ iter = "none"
           /\ result = [set |-> TRUE, payloads |-> <<>>, err |-> "ErrBuildingInternalQuery"]

\* C7 witness: the sort-time panic reaches the caller after both were released
C7_Witness ==
    /\ pc = "panicked"
    /\ cursor = Len(store)
    /\ Len(values) >= 2
    /\ \A k \in 1..Len(matchLog) : matchLog[k].out = "true"
    /\ events = AllReleased
    /\ iter = "closed"
    /\ txn = "discarded"

\* the positions accumulated, in iteration order
Accumulated ==
    [k \in 1..Len(SelectSeq(matchLog, LAMBDA e : e.out = "true")) |->
        SelectSeq(matchLog, LAMBDA e : e.out = "true")[k].i]

SortKey(i) == FieldOf(store[i], SortPath)

\* every accumulated record resolves the sort path to a string, or every one to a float
Sortable ==
    /\ \A k \in 1..Len(Accumulated) : Resolves(store[Accumulated[k]], SortPath)
    /\ \E d \in {"string", "float"} :
           \A k \in 1..Len(Accumulated) : SortKey(Accumulated[k]).dom = d

KeyLeq(x, y) == ThreeWay(x, y) <= 0

Reverse(seq) == [k \in 1..Len(seq) |-> seq[Len(seq) + 1 - k]]

\* the result Find gives on the accumulated records in the other direction
OtherDirection ==
    Payloads(sortSlice([k \in 1..Len(Accumulated) |-> MarshaledResult(store, Accumulated[k])],
                       [heap[findQ].Sort EXCEPT !.Desc = ~@]).values)

\* C8: a result sorted on a path every accumulated record resolves in one domain
\* is a permutation of the accumulated payloads, non-decreasing in the sort key for
\* OrderBy and non-increasing for OrderByDesc, and is the reverse of the result in
\* the other direction when the keys are distinct; with no sort path it is the
\* accumulated payloads in iteration order
C8_SortedResult ==
    (Returned /\ result.err = "nil") =>
        IF SortPath = PNone THEN result.payloads = Accumulated
        ELSE Sortable =>
            /\ Len(result.payloads) = Len(Accumulated)
            /\ {result.payloads[k] : k \in 1..Len(result.payloads)}
                   = {Accumulated[k] : k \in 1..Len(Accumulated)}
            /\ \A k \in 1..(Len(result.payloads) - 1) :
                   IF heap[findQ].Sort.Desc
                   THEN KeyLeq(SortKey(result.payloads[k + 1]), SortKey(result.payloads[k]))
                   ELSE KeyLeq(SortKey(result.payloads[k]), SortKey(result.payloads[k + 1]))
            /\ (\A j, k \in 1..Len(Accumulated) :
                    j # k => SortKey(Accumulated[j]) # SortKey(Accumulated[k]))
                   => result.payloads = Reverse(OtherDirection)

\* C8 witness: ages 2, 1, 3 in iteration order come back as 3, 2, 1 under OrderByDesc
C8_Witness ==
    /\ Returned
    /\ heap[findQ].Sort = [FieldPath |-> PB, Desc |-> TRUE]
    /\ Len(store) = 3
    /\ Accumulated = <<1, 2, 3>>
    /\ Sortable
    /\ <<SortKey(1), SortKey(2), SortKey(3)>> = <<FloatVal(2), FloatVal(1), FloatVal(3)>>
    /\ result.payloads = <<3, 1, 2>>

====
